---- MODULE Spec2Model ----
(***************************************************************************)
(* Model of the client-side router of vanilla-webapp                       *)
(* (src/app/pages/app/index.js: classes Route and Router, and the page     *)
(* script of the 'app' page; src/app/index.js: appRouter).                 *)
(*                                                                         *)
(* Strings that the code parses (paths, path patterns) are sequences of    *)
(* one-character strings, so that split('/'), startsWith(':') and slice(1) *)
(* are computed and not assumed.  Opaque identifiers (view names, markup,  *)
(* metadata values, event names) are plain strings.                        *)
(*                                                                         *)
(* JavaScript runs one synchronous block at a time.  Every action below is *)
(* one such block: an entry point called by the page or the browser, or    *)
(* the continuation of an await.  A continuation that waits for no I/O     *)
(* (await of an already settled promise) sits in the FIFO microtask queue  *)
(* microQ; browser events and I/O completions only happen when that queue  *)
(* is empty, calls made by running code (navigate, init, unmount) can      *)
(* happen while it is not.                                                 *)
(***************************************************************************)
EXTENDS Integers, Sequences, FiniteSets, TLC

\* ------------------------------------------------------------------ bounds
MaxHandle == 2      \* handleLocation invocations in one behaviour
MaxInit == 2        \* init() calls in one behaviour
MaxUnmount == 1     \* Router.unmount() calls in one behaviour
MaxFaults == 1      \* failed or empty answers of the view loader

\* ----------------------------------------------------------------- strings
RECURSIVE SplitAcc(_, _, _)
SplitAcc(s, cur, acc) ==
    IF s = <<>>
    THEN IF cur = <<>> THEN acc ELSE Append(acc, cur)
    ELSE IF Head(s) = "/"
         THEN SplitAcc(Tail(s), <<>>, IF cur = <<>> THEN acc ELSE Append(acc, cur))
         ELSE SplitAcc(Tail(s), Append(cur, Head(s)), acc)

\* path.split('/').filter(Boolean)
SplitPath(s) == SplitAcc(s, <<>>, <<>>)

\* part.startsWith(':')
StartsWithColon(part) == part # <<>> /\ Head(part) = ":"

\* the locations the navigation host can show
UrlRoot == <<"/">>
UrlA == <<"/", "a">>
Url42 == <<"/", "4", "2">>
UrlAB == <<"/", "a", "/", "b">>
Urls == {UrlRoot, UrlA, Url42, UrlAB}

\* the value JavaScript writes for undefined into a string slot
UndefinedText == "undefined"

\* ---------------------------------------------------------------- metadata
EmptyFn == [k \in {} |-> ""]
NoMeta == [top |-> EmptyFn, og |-> EmptyFn, twitter |-> EmptyFn]

\* { ...a, ...b }
Spread(a, b) == [k \in DOMAIN a \cup DOMAIN b |-> IF k \in DOMAIN b THEN b[k] ELSE a[k]]

\* the META table: attribute kind of every field
META ==
    [description |-> "name",
     og |-> [description |-> "property", image |-> "property", title |-> "property",
             type |-> "property", url |-> "property"],
     twitter |-> [card |-> "name", description |-> "name", image |-> "name",
                  title |-> "name", url |-> "property", domain |-> "property"]]

\* enumeration order of the keys of the og and twitter objects (for ... in)
OgKeys == <<"description", "image", "title", "type", "url">>
TwitterKeys == <<"card", "description", "image", "title", "url", "domain">>

\* ------------------------------------------------------------------ routes
\* new Route(path, view, meta): path === 404 ? 404 : path.split('/').filter(Boolean)
Route(path, view, meta) ==
    [path |-> [is404 |-> FALSE, parts |-> SplitPath(path)], view |-> view, meta |-> meta]

\* new NotFoundRoute(): super(404, '/404.html', { title: '404 - not found' })
NotFoundRoute ==
    [path |-> [is404 |-> TRUE, parts |-> <<>>], view |-> "/404.html",
     meta |-> [top |-> [title |-> "404 - not found"], og |-> EmptyFn, twitter |-> EmptyFn]]

\* The router configurations of the model.  "app" is appRouter of
\* src/app/index.js; "site" is a second route list, with two patterns of the
\* same length and with metadata, as a user of the Router class writes it.
Configs == {"app", "site"}

appRouter ==
    [routes |-> << Route(<<"/">>, "home", NoMeta),
                   Route(<<"/", ":", "i", "d">>, "app", NoMeta),
                   NotFoundRoute >>,
     defaultMeta |-> NoMeta]

siteRouter ==
    [routes |-> << Route(<<"/", "a">>, "about",
                         [top |-> [title |-> "About", description |-> "about us"],
                          og |-> [title |-> "About"], twitter |-> EmptyFn]),
                   Route(<<"/", ":", "i", "d">>, "app",
                         [top |-> [title |-> "Item"], og |-> EmptyFn, twitter |-> EmptyFn]),
                   NotFoundRoute >>,
     defaultMeta |-> [top |-> [title |-> "Site", description |-> "a site"],
                      og |-> [type |-> "website"], twitter |-> EmptyFn]]

\* two more route lists, for Route.match on patterns of two segments
deepRouter ==
    [routes |-> << Route(<<"/", "a", "/", ":", "i", "d">>, "app", NoMeta),
                   Route(<<"/", ":", "i", "d", "/", "b">>, "app", NoMeta),
                   NotFoundRoute >>,
     defaultMeta |-> NoMeta]

pairRouter ==
    [routes |-> << Route(<<"/", ":", "x", "/", ":", "y">>, "app", NoMeta),
                   Route(<<"/", "a", "/", "b">>, "about", NoMeta),
                   NotFoundRoute >>,
     defaultMeta |-> NoMeta]

RouterOf(c) ==
    CASE c = "app" -> appRouter
      [] c = "site" -> siteRouter
      [] c = "deep" -> deepRouter
      [] c = "pair" -> pairRouter
RouteIds == 1..3
NoRoute == 0

\* no direct call of Route.match yet
NoCall == [route |-> NoRoute, path |-> <<>>, changeParams |-> FALSE, result |-> FALSE]

\* no direct call of Router.findRoute yet
NoFind == [path |-> <<>>, routeChange |-> FALSE, found |-> NoRoute]

\* no `new Router(options)` yet
NoOptions == [routes |-> [has |-> FALSE, list |-> <<>>], wrapper |-> FALSE,
              defaultMeta |-> [has |-> FALSE, val |-> NoMeta]]
NoRouter == [routes |-> <<>>, notFoundRoute |-> NoRoute, defaultMeta |-> NoMeta]
NotBuilt == [options |-> NoOptions,
             result |-> [outcome |-> "none", message |-> "", router |-> NoRouter]]

\* no routeChanged emission yet
NoShown == [set |-> FALSE, wrapper |-> "", currentRoute |-> NoRoute]

\* no direct call on a bus yet
NoBusCall == [op |-> "none", bus |-> "", event |-> "", id |-> -1, result |-> FALSE]

\* What the view loader serves for a view: whether the markup's template
\* names a script, what that page script exports, and the hrefs of the
\* <a prefetch> links in the markup.  The 'app' page script is
\* src/app/pages/app/index.js lines 1-14: a mounted export, no unmount export.
ViewInfo(v) ==
    CASE v = "home" -> [script |-> "", mountedExport |-> FALSE, unmountExport |-> "none",
                        prefetch |-> <<Url42>>]
      [] v = "app" -> [script |-> "index.js", mountedExport |-> TRUE, unmountExport |-> "none",
                       prefetch |-> <<>>]
      [] v = "about" -> [script |-> "index.js", mountedExport |-> TRUE, unmountExport |-> "async",
                         prefetch |-> <<>>]
      [] OTHER -> [script |-> "", mountedExport |-> FALSE, unmountExport |-> "none",
                   prefetch |-> <<>>]

\* ------------------------------------------------------------------- state
VARIABLES
    cfg,              \* which router configuration was constructed
    defaultMeta,      \* Router.defaultMeta
    routeMeta,        \* per Route: meta
    location,         \* window.location.pathname
    route,            \* per Route: params, _content, _script, _eventListenners, ...
    currentRoute,     \* Router.currentRoute (NoRoute = undefined)
    isInitialized,    \* Router.isInitialized
    eventListeners,   \* Router.eventListeners: event -> entries in insertion order
    eventListenerIds, \* Router._eventListenerIds: route -> listener id (-1 = no entry)
    routerListenerId, \* Router._currentListenerId
    popstate,         \* number of popstate listeners registered on window
    click,            \* number of click listeners registered on document
    wrapper,          \* wrapper.innerHTML
    head,             \* document head: title and meta tags
    link,             \* innerHTML of the #link element of the 'app' page
    hl,               \* handleLocation invocations, in call order
    pf,               \* Route.prefetch invocations, in call order
    mounting,         \* route -> mounted() calls waiting for the script import
    teardown,         \* route -> asynchronous unmount exports still running
    microQ,           \* microtask queue: continuations that wait for no I/O
    emits,            \* history: emissions per Router event
    fetches,          \* history: markup requests sent to the view loader per route
    calls,            \* history: per route, mounted() calls, unmount() calls and
                      \* unmount() calls that have resolved
    faults,           \* history: failed or empty loader answers
    rejected,         \* history: the handleLocation invocations whose markup
                      \* request the loader failed
    inits,            \* history: init() calls
    unmounts,         \* history: Router.unmount() calls
    seen,             \* history: what the listeners of each `initialized`
                      \* emission find when they read the Router
    returned,         \* history: the last direct call of Route.match and what
                      \* it returned
    resolved,         \* history: the last direct call of Router.findRoute and
                      \* the route it returned
    built,            \* history: the last `new Router(options)` and how it ended
    busCall,          \* history: the last direct call of on, off or emit on a
                      \* bus and what it returned
    invoked,          \* history: the page's listeners that the last direct
                      \* emit invoked, in order
    ran,              \* history: per route, how often the mounted and the
                      \* unmount export of its page script were invoked
    shown             \* history: the wrapper and the currentRoute that the
                      \* listeners of the last routeChanged emission found

vars == << cfg, defaultMeta, routeMeta, location, route, currentRoute, isInitialized,
           eventListeners, eventListenerIds, routerListenerId, popstate, click, wrapper, head,
           link, hl, pf, mounting, teardown, microQ, emits, fetches, calls, faults, rejected,
           inits, unmounts, seen, returned, resolved, built, busCall, invoked, ran,
           shown >>

\* what the constructors set and no method assigns
Fixed == << cfg, defaultMeta, routeMeta >>

\* the records of the direct calls of public methods
Direct == << returned, resolved, built, busCall >>

RouteEvents == {"paramsChanged", "scriptLoaded"}
RouterEvents == {"routeChanged", "initialized", "unmounted", "paramsChanged"}

Routes == RouterOf(cfg).routes

\* The synchronous part of the state, as one record: the operators below are
\* the synchronous methods, from store to store.
Store ==
    [route |-> route, currentRoute |-> currentRoute, eventListeners |-> eventListeners,
     routerListenerId |-> routerListenerId, wrapper |-> wrapper, head |-> head,
     link |-> link, emits |-> emits, hl |-> hl, pf |-> pf, mounting |-> mounting,
     teardown |-> teardown, microQ |-> microQ, fetches |-> fetches, calls |-> calls,
     isInitialized |-> isInitialized, seen |-> seen, invoked |-> invoked, ran |-> ran,
     shown |-> shown]

\* the store S becomes the next state
Commit(S) ==
    /\ route' = S.route
    /\ currentRoute' = S.currentRoute
    /\ eventListeners' = S.eventListeners
    /\ routerListenerId' = S.routerListenerId
    /\ wrapper' = S.wrapper
    /\ head' = S.head
    /\ link' = S.link
    /\ emits' = S.emits
    /\ hl' = S.hl
    /\ pf' = S.pf
    /\ mounting' = S.mounting
    /\ teardown' = S.teardown
    /\ microQ' = S.microQ
    /\ fetches' = S.fetches
    /\ calls' = S.calls
    /\ isInitialized' = S.isInitialized
    /\ seen' = S.seen
    /\ invoked' = S.invoked
    /\ ran' = S.ran
    /\ shown' = S.shown

\* ------------------------------------------------------- metadata, the head
NoTag == [present |-> FALSE, hasContent |-> FALSE, content |-> "", router |-> FALSE]
TagNames ==
    {"description", "image", "title", "type", "url", "card", "domain",
     "og:description", "og:image", "og:title", "og:type", "og:url",
     "twitter:card", "twitter:description", "twitter:image", "twitter:title",
     "twitter:url", "twitter:domain"}
TagKeys == {"name", "property"} \X TagNames

\* get meta() with the og and twitter objects spread like the other fields:
\* the route's object, when it has one, replaces the default's
MetaOf_Shallow(d, r) ==
    [top |-> Spread(d.top, r.top),
     og |-> IF r.og = EmptyFn THEN d.og ELSE r.og,
     twitter |-> IF r.twitter = EmptyFn THEN d.twitter ELSE r.twitter]

\* get meta(): d is this.defaultMeta, r is this.currentRoute?.meta
MetaOf(d, r) ==
    [top |-> Spread(d.top, r.top), og |-> Spread(d.og, r.og),
     twitter |-> Spread(d.twitter, r.twitter)]

\* this.currentRoute?.meta
CurrentMeta(S) == IF S.currentRoute = NoRoute THEN NoMeta ELSE routeMeta[S.currentRoute]

\* this.meta
RouterMeta(S) == MetaOf(defaultMeta, CurrentMeta(S))

\* an optional string argument: a value, or undefined
Given(f, k) == IF k \in DOMAIN f THEN [has |-> TRUE, val |-> f[k]] ELSE [has |-> FALSE, val |-> ""]
Text(arg) == IF arg.has THEN arg.val ELSE UndefinedText

\* refreshTitle(head, title)
refreshTitle(h, title) ==
    IF ~h.title.present
    THEN [h EXCEPT !.title = [present |-> TRUE, text |-> Text(title)]]
    ELSE IF title.has /\ h.title.text = title.val
         THEN h
         ELSE [h EXCEPT !.title.text = Text(title)]

\* refreshMetaAttribute(head, name, content, isProperty)
refreshMetaAttribute(h, name, content, isProperty) ==
    LET key == IF isProperty THEN "property" ELSE "name"
        tag == h.tags[<<key, name>>]
        falsy == ~content.has \/ content.val = ""
        written == [present |-> TRUE, hasContent |-> TRUE, content |-> Text(content),
                    router |-> TRUE]
    IN IF ~tag.present
       THEN [h EXCEPT !.tags[<<key, name>>] = written]
       ELSE IF falsy
            THEN [h EXCEPT !.tags[<<key, name>>] = NoTag]
            ELSE IF tag.hasContent /\ tag.content = content.val
                 THEN h
                 ELSE [h EXCEPT !.tags[<<key, name>>] = written]

RECURSIVE refreshFamily(_, _, _, _, _)
refreshFamily(h, keys, obj, table, k) ==
    IF k > Len(keys) THEN h
    ELSE IF keys[k] \in DOMAIN obj
         THEN refreshFamily(
                  refreshMetaAttribute(h, keys[k], Given(obj, keys[k]),
                                       keys[k] \in DOMAIN table /\ table[keys[k]] = "property"),
                  keys, obj, table, k + 1)
         ELSE refreshFamily(h, keys, obj, table, k + 1)

\* refreshMeta()
refreshMeta(S) ==
    LET meta == RouterMeta(S)
        h1 == refreshTitle(S.head, Given(meta.top, "title"))
        h2 == refreshMetaAttribute(h1, "description", Given(meta.top, "description"), FALSE)
        h3 == refreshFamily(h2, OgKeys, meta.og, META.og, 1)
        h4 == refreshFamily(h3, TwitterKeys, meta.twitter, META.twitter, 1)
    IN [S EXCEPT !.head = h4]

\* --------------------------------------------------------------- event buses
IdName == <<"i", "d">>
NoParams == [def |-> FALSE, kv |-> EmptyFn]

\* get params() without the Object.assign of the current route's params
RouterParams_QueryOnly(S) == EmptyFn

\* get params(): the query parameters (the location has no query string),
\* then the current route's params over them
RouterParams(S) ==
    IF S.currentRoute # NoRoute /\ S.route[S.currentRoute].params.def
    THEN Spread(EmptyFn, S.route[S.currentRoute].params.kv)
    ELSE EmptyFn

\* get params(), read at .id (the location has no query string)
RouterParamsId(S) ==
    IF S.currentRoute # NoRoute /\ S.route[S.currentRoute].params.def
       /\ IdName \in DOMAIN S.route[S.currentRoute].params.kv
    THEN S.route[S.currentRoute].params.kv[IdName]
    ELSE <<UndefinedText>>

\* paramChanged() of the 'app' page script: #link exists only while the
\* wrapper shows the page's markup; without it the assignment throws.
paramChanged(S) ==
    IF S.wrapper = "app" THEN [ok |-> TRUE, S |-> [S EXCEPT !.link = RouterParamsId(S)]]
    ELSE [ok |-> FALSE, S |-> S]

\* the callbacks a page subscribes in the direct calls of on: one that
\* returns and one that throws
Callbacks == {"listener", "thrower"}

\* callback(this) of Router.emit: paramChanged of the 'app' page, or a
\* callback of the page, which is noted as invoked and then returns or throws
RouterInvoke(S, entry) ==
    IF entry.cb \in Callbacks
    THEN [ok |-> entry.cb # "thrower",
          S |-> [S EXCEPT !.invoked = Append(@, [bus |-> "Router", id |-> entry.id])]]
    ELSE paramChanged(S)

\* Router.emit without try/catch: the first callback that throws ends the loop
RECURSIVE RouterEmitFrom_NoCatch(_, _, _)
RouterEmitFrom_NoCatch(S, entries, k) ==
    IF k > Len(entries) THEN S
    ELSE IF RouterInvoke(S, entries[k]).ok
         THEN RouterEmitFrom_NoCatch(RouterInvoke(S, entries[k]).S, entries, k + 1)
         ELSE RouterInvoke(S, entries[k]).S

\* this.eventListeners[event].forEach(callback => { try { callback(this) }
\* catch (error) { console.error(error) } })
RECURSIVE RouterEmitFrom(_, _, _)
RouterEmitFrom(S, entries, k) ==
    IF k > Len(entries) THEN S
    ELSE RouterEmitFrom(RouterInvoke(S, entries[k]).S, entries, k + 1)

\* what a callback of `initialized` reads from the Router it is given, and
\* what a callback of `routeChanged` finds in the wrapper and in currentRoute
Noted(S, event) ==
    IF event = "initialized"
    THEN [S EXCEPT !.seen = Append(@, [isInitialized |-> S.isInitialized,
                                       routers |-> {r \in RouteIds : S.route[r].router}])]
    ELSE IF event = "routeChanged"
         THEN [S EXCEPT !.shown = [set |-> TRUE, wrapper |-> S.wrapper,
                                   currentRoute |-> S.currentRoute]]
         ELSE S

\* Router.emit(event): every callback runs inside try/catch
RouterEmit(S, event) ==
    RouterEmitFrom(Noted([S EXCEPT !.emits[event] = @ + 1], event), S.eventListeners[event], 1)

\* Router.on(event, callback)
RouterOn(S, event, cb) ==
    [S EXCEPT !.eventListeners[event] = Append(@, [id |-> S.routerListenerId, cb |-> cb]),
              !.routerListenerId = @ + 1]

\* Map.delete(id) removing the first entry of the Map, whatever its key
RemoveId_First(entries, id) == IF entries = <<>> THEN entries ELSE Tail(entries)

\* Map.delete(id): the Map without the entry of key id
RemoveId(entries, id) == SelectSeq(entries, LAMBDA e : e.id # id)

\* off returning true whether or not it removed an entry
Deleted_Always(entries, id) == TRUE

\* what off returns: true when Map.delete removed an entry; false when the
\* Map has no such key and undefined when the event has no Map, both falsy
Deleted(entries, id) == \E k \in 1..Len(entries) : entries[k].id = id

\* Router.off(event, id)
RouterOff(S, event, id) ==
    [S |-> [S EXCEPT !.eventListeners[event] = RemoveId(@, id)],
     result |-> Deleted(S.eventListeners[event], id)]

\* Route.onParamsChanged(): this.router.refreshMeta(); throws without a router
RouteOnParamsChanged(S, r) == IF S.route[r].router THEN refreshMeta(S) ELSE S

\* listener(this) of Route.emit, inside try/catch: the Router's forwarder,
\* the route's own listener, or a callback of the page
RouteInvoke(S, r, entry) ==
    IF entry.cb = "Router.onParamsChanged" THEN RouterEmit(S, "paramsChanged")
    ELSE IF entry.cb \in Callbacks
         THEN [S EXCEPT !.invoked = Append(@, [bus |-> "Route", id |-> entry.id])]
         ELSE RouteOnParamsChanged(S, r)

RECURSIVE RouteEmitFrom(_, _, _, _)
RouteEmitFrom(S, r, entries, k) ==
    IF k > Len(entries) THEN S
    ELSE RouteEmitFrom(RouteInvoke(S, r, entries[k]), r, entries, k + 1)

\* Route.emit(event)
RouteEmit(S, r, event) == RouteEmitFrom(S, r, S.route[r].listeners[event], 1)

\* Route.on(event, callback): returns the id in S.route[r].currentListenerId - 1
RouteOn(S, r, event, cb) ==
    [S EXCEPT !.route[r].listeners[event] =
                  Append(@, [id |-> S.route[r].currentListenerId, cb |-> cb]),
              !.route[r].currentListenerId = @ + 1]

\* Route.off(event, id)
RouteOff(S, r, event, id) == [S EXCEPT !.route[r].listeners[event] = RemoveId(@, id)]

\* ---------------------------------------------------------------- matching
\* `every` stopping after the first part
RECURSIVE Every_FirstOnly(_, _, _, _)
Every_FirstOnly(parts, path, k, params) ==
    IF k > Len(parts) \/ k > 1 THEN [result |-> TRUE, params |-> params]
    ELSE IF StartsWithColon(parts[k])
         THEN Every_FirstOnly(parts, path, k + 1,
                              Spread(params, [n \in {Tail(parts[k])} |-> path[k]]))
         ELSE IF parts[k] = path[k]
              THEN Every_FirstOnly(parts, path, k + 1, params)
              ELSE [result |-> FALSE, params |-> params]

\* this.path.every(...): the bindings made up to the first literal mismatch,
\* and whether every part passed
RECURSIVE Every(_, _, _, _)
Every(parts, path, k, params) ==
    IF k > Len(parts) THEN [result |-> TRUE, params |-> params]
    ELSE IF StartsWithColon(parts[k])
         THEN Every(parts, path, k + 1,
                    Spread(params, [n \in {Tail(parts[k])} |-> path[k]]))
         ELSE IF parts[k] = path[k]
              THEN Every(parts, path, k + 1, params)
              ELSE [result |-> FALSE, params |-> params]

\* match() committing and emitting whatever changeParams is
MatchCommit_Always(S, r, e, changeParams) ==
    [S |-> RouteEmit([S EXCEPT !.route[r].params = [def |-> TRUE, kv |-> e.params]],
                     r, "paramsChanged"),
     result |-> e.result]

\* Route.match(path, changeParams), after `every`: e is its outcome
MatchCommit(S, r, e, changeParams) ==
    IF changeParams
    THEN [S |-> RouteEmit([S EXCEPT !.route[r].params = [def |-> TRUE, kv |-> e.params]],
                          r, "paramsChanged"),
          result |-> e.result]
    ELSE [S |-> S, result |-> e.result]

\* Route.match(path, changeParams)
Match(S, r, path, changeParams) ==
    IF Routes[r].path.is404 THEN [S |-> S, result |-> FALSE]
    ELSE IF Len(Routes[r].path.parts) # Len(path) THEN [S |-> S, result |-> FALSE]
    ELSE MatchCommit(S, r, Every(Routes[r].path.parts, path, 1, EmptyFn), changeParams)

\* find404Route(routes): routes.find(route => route.path === 404), and
\* RouterInitError when it finds none
find404RouteIn(routes) ==
    LET F == {k \in 1..Len(routes) : routes[k].path.is404}
    IN IF F = {} THEN [threw |-> TRUE, index |-> NoRoute]
       ELSE [threw |-> FALSE, index |-> CHOOSE k \in F : \A q \in F : k <= q]

\* this.notFoundRoute
find404Route == find404RouteIn(Routes).index

\* this.routes.find(route => route.match(pathArray, routeChange)) || this.notFoundRoute
RECURSIVE FindFrom(_, _, _, _)
FindNext(m, pathArray, routeChange, r) ==
    IF m.result THEN [S |-> m.S, found |-> r]
    ELSE FindFrom(m.S, pathArray, routeChange, r + 1)

FindFrom(S, pathArray, routeChange, r) ==
    IF r > Len(Routes) THEN [S |-> S, found |-> find404Route]
    ELSE FindNext(Match(S, r, pathArray, routeChange), pathArray, routeChange, r)

\* findRoute starting its search at the second route
findRoute_SkipFirst(S, path, routeChange) == FindFrom(S, SplitPath(path), routeChange, 2)

\* Router.findRoute(path, routeChange)
findRoute(S, path, routeChange) == FindFrom(S, SplitPath(path), routeChange, 1)

\* ------------------------------------------------------- Route, async parts
\* what the view loader answers for a view: the text of index.html
Markup(v) ==
    [template |-> ViewInfo(v).script # "", script |-> ViewInfo(v).script,
     inner |-> v, text |-> v]

ErrorText == "An error occurred"

\* divideContentAndScript(content): SCRIPT_REGEX sets _script, CONTENT_REGEX
\* takes the template's inner markup, or the whole text without a template
divideContentAndScript(S, r, response) ==
    [S |-> IF response.template /\ response.script # ""
           THEN [S EXCEPT !.route[r].script = response.script] ELSE S,
     content |-> IF response.template THEN response.inner ELSE response.text]

\* fetchRoute() without the `if (this._content)` test
fetchRouteCall_NoCache(S, r) ==
    [S |-> [S EXCEPT !.fetches[r] = @ + 1], cached |-> FALSE, html |-> ""]

\* fetchRoute(), up to its await: the cached content, or a request to the loader
fetchRouteCall(S, r) ==
    IF S.route[r].content # ""
    THEN [S |-> S, cached |-> TRUE, html |-> S.route[r].content]
    ELSE [S |-> [S EXCEPT !.fetches[r] = @ + 1], cached |-> FALSE, html |-> ""]

\* fetchRoute() caching the fallback text of an empty answer
fetchRouteAnswer_CacheFallback(S, r, response) ==
    IF response.text = ""
    THEN [S |-> [S EXCEPT !.route[r].content = ErrorText], html |-> ErrorText]
    ELSE [S |-> [divideContentAndScript(S, r, response).S
                     EXCEPT !.route[r].content = divideContentAndScript(S, r, response).content],
          html |-> divideContentAndScript(S, r, response).content]

\* fetchRoute(), after a successful answer of the loader
fetchRouteAnswer(S, r, response) ==
    IF response.text = ""
    THEN [S |-> S, html |-> ErrorText]
    ELSE LET d == divideContentAndScript(S, r, response)
         IN [S |-> [d.S EXCEPT !.route[r].content = d.content], html |-> d.content]

\* fetchScript(): import(...) is started, scriptLoaded is emitted
fetchScript(S, r) == RouteEmit(S, r, "scriptLoaded")

\* Route.mounted()
RouteMounted(S, r) ==
    LET S1 == [RouteOn(S, r, "paramsChanged", "Route.onParamsChanged")
                   EXCEPT !.route[r].paramsListenerId = S.route[r].currentListenerId,
                          !.calls[r].mounted = @ + 1]
    IN IF S1.route[r].script # ""
       THEN [fetchScript(S1, r) EXCEPT !.mounting[r] = @ + 1]
       ELSE S1

\* Route.unmount(), up to its await; waits is whether it awaits the import
RouteUnmountCall(S, r) ==
    LET S1 == [RouteOff(S, r, "paramsChanged", S.route[r].paramsListenerId)
                   EXCEPT !.calls[r].unmount = @ + 1]
    IN IF S1.route[r].script # ""
       THEN [S |-> fetchScript(S1, r), waits |-> TRUE]
       ELSE [S |-> S1, waits |-> FALSE]

\* runIfExist(method): calls the export and drops what it returns
runIfExist(S, r, export) ==
    IF export = "async" THEN [S EXCEPT !.teardown[r] = @ + 1, !.ran[r].unmount = @ + 1] ELSE S

\* the mounted export of a page script.  'app': paramChanged(), then
\* appRouter.on('paramsChanged', paramChanged); other pages: no Router access
PageMounted(S, r) ==
    IF Routes[r].view = "app"
    THEN LET p == paramChanged([S EXCEPT !.ran[r].mounted = @ + 1])
         IN IF p.ok THEN RouterOn(p.S, "paramsChanged", "paramChanged") ELSE p.S
    ELSE [S EXCEPT !.ran[r].mounted = @ + 1]

\* Route.prefetch(), up to its await
RoutePrefetchCall(S, r) ==
    LET f == fetchRouteCall(S, r)
        n == Len(S.pf) + 1
    IN IF f.cached
       THEN [f.S EXCEPT !.pf = Append(@, [route |-> r, pc |-> "tick"]),
                        !.microQ = Append(@, [kind |-> "pf", id |-> n])]
       ELSE [f.S EXCEPT !.pf = Append(@, [route |-> r, pc |-> "io"])]

\* Route.prefetch(), after fetchRoute() returned
RoutePrefetchRest(S, j) ==
    LET r == S.pf[j].route
        S1 == [S EXCEPT !.pf[j].pc = "done"]
    IN IF S1.route[r].script # "" THEN fetchScript(S1, r) ELSE S1

\* ------------------------------------------------------------------ Router
Logged(S, i, what) == [S EXCEPT !.hl[i].log = Append(@, what)]

\* the <a prefetch> links of the document
PrefetchLinks(html) ==
    IF html \in {Routes[r].view : r \in RouteIds} THEN ViewInfo(html).prefetch ELSE <<>>

\* route.prefetch() on the route that findRoute(path) returned as f
PrefetchFound(f) == RoutePrefetchCall(f.S, f.found)

RECURSIVE onDomChangedFrom(_, _, _)
onDomChangedFrom(S, links, k) ==
    IF k > Len(links) THEN S
    ELSE onDomChangedFrom(PrefetchFound(findRoute(S, links[k], FALSE)), links, k + 1)

\* Router.onDomChanged()
onDomChanged(S) == onDomChangedFrom(S, PrefetchLinks(S.wrapper), 1)

\* handleLocation() setting currentRoute and emitting before it writes the wrapper
handleLocationRender_CurrentFirst(S, i, html) ==
    LET r == S.hl[i].route
        S1 == Logged([S EXCEPT !.currentRoute = r], i, "currentRoute set")
        S2 == Logged(RouterEmit(S1, "routeChanged"), i, "routeChanged emitted")
        S3 == Logged([S2 EXCEPT !.wrapper = html, !.link = <<>>], i, "container written")
        S4 == Logged(onDomChanged(S3), i, "prefetch started")
        S5 == Logged(RouteMounted(S4, r), i, "mounted called")
    IN [S5 EXCEPT !.hl[i].pc = "done"]

\* handleLocation(), from `this.wrapper.innerHTML = html` to its end
handleLocationRender(S, i, html) ==
    LET r == S.hl[i].route
        S1 == Logged([S EXCEPT !.wrapper = html, !.link = <<>>], i, "container written")
        S2 == Logged(onDomChanged(S1), i, "prefetch started")
        S3 == Logged([S2 EXCEPT !.currentRoute = r], i, "currentRoute set")
        S4 == Logged(RouterEmit(S3, "routeChanged"), i, "routeChanged emitted")
        S5 == Logged(RouteMounted(S4, r), i, "mounted called")
    IN [S5 EXCEPT !.hl[i].pc = "done"]

\* handleLocation() rendering the fallback text when the loader fails
handleLocationFailed_Fallback(S, i) ==
    handleLocationRender(Logged(S, i, "fetch resolved"), i, ErrorText)

\* the loader fails: fetchRoute() throws RouterRouteError, which nothing
\* catches, so the await in handleLocation() throws and the invocation ends
handleLocationFailed(S, i) == [S EXCEPT !.hl[i].pc = "failed"]

\* handleLocation() assigning currentRoute before it awaits fetchRoute()
handleLocationFetch_CurrentEarly(S, i) ==
    IF fetchRouteCall(S, S.hl[i].route).cached
    THEN [fetchRouteCall(S, S.hl[i].route).S
              EXCEPT !.currentRoute = S.hl[i].route, !.hl[i].pc = "fetchTick",
                     !.hl[i].html = fetchRouteCall(S, S.hl[i].route).html,
                     !.hl[i].log = @ \o <<"unmount resolved", "fetch started">>,
                     !.microQ = Append(@, [kind |-> "hl", id |-> i])]
    ELSE [fetchRouteCall(S, S.hl[i].route).S
              EXCEPT !.currentRoute = S.hl[i].route, !.hl[i].pc = "fetchIO",
                     !.hl[i].log = @ \o <<"unmount resolved", "fetch started">>]

\* handleLocation(), from `route.fetchRoute()` to the await of its result
handleLocationFetch(S, i) ==
    LET r == S.hl[i].route
        old == S.hl[i].old
        S0 == IF old = NoRoute THEN S ELSE [S EXCEPT !.calls[old].unmounted = @ + 1]
        S1 == Logged(S0, i, "unmount resolved")
        f == fetchRouteCall(S1, r)
        S2 == Logged(f.S, i, "fetch started")
    IN IF f.cached
       THEN [S2 EXCEPT !.hl[i].pc = "fetchTick", !.hl[i].html = f.html,
                       !.microQ = Append(@, [kind |-> "hl", id |-> i])]
       ELSE [S2 EXCEPT !.hl[i].pc = "fetchIO"]

\* handleLocation() suspends on `await this.currentRoute?.unmount()`: u is
\* the outcome of the unmount() call, task the record of this invocation
handleLocationAwait(u, task) ==
    IF u.waits
    THEN [u.S EXCEPT !.hl = Append(@, [task EXCEPT !.pc = "unmountImport"])]
    ELSE [u.S EXCEPT !.hl = Append(@, [task EXCEPT !.pc = "unmountTick"]),
                     !.microQ = Append(@, [kind |-> "hl", id |-> Len(u.S.hl) + 1])]

\* handleLocation() without `if (route === this.currentRoute) return`
handleLocationFound_NoShortCircuit(f) ==
    LET task == [route |-> f.found, old |-> f.S.currentRoute, pc |-> "same", html |-> "",
                 log |-> <<>>]
    IN IF f.S.currentRoute = NoRoute
       THEN handleLocationAwait([S |-> f.S, waits |-> FALSE], task)
       ELSE handleLocationAwait(RouteUnmountCall(f.S, f.S.currentRoute), task)

\* handleLocation() after findRoute returned f
handleLocationFound(f) ==
    LET r == f.found
        old == f.S.currentRoute
        task == [route |-> r, old |-> old, pc |-> "same", html |-> "", log |-> <<>>]
    IN IF r = old
       THEN [f.S EXCEPT !.hl = Append(@, task)]
       ELSE IF old = NoRoute
            THEN handleLocationAwait([S |-> f.S, waits |-> FALSE], task)
            ELSE handleLocationAwait(RouteUnmountCall(f.S, old), task)

\* handleLocation(), up to `await this.currentRoute?.unmount()`
handleLocation(S, path) == handleLocationFound(findRoute(S, path, TRUE))

RECURSIVE handleLocationTimes(_, _, _)
handleLocationTimes(S, path, n) ==
    IF n = 0 THEN S ELSE handleLocationTimes(handleLocation(S, path), path, n - 1)

RECURSIVE initRoutes(_, _, _)
initRoutes(S, ids, r) ==
    IF r > Len(Routes) THEN [S |-> S, ids |-> ids]
    ELSE initRoutes([RouteOn(S, r, "paramsChanged", "Router.onParamsChanged")
                         EXCEPT !.route[r].router = TRUE],
                    [ids EXCEPT ![r] = S.route[r].currentListenerId], r + 1)

RECURSIVE unmountRoutes(_, _, _)
unmountRoutes(S, ids, r) ==
    IF r > Len(Routes) THEN [S |-> S, ids |-> ids]
    ELSE unmountRoutes([RouteOff(S, r, "paramsChanged", ids[r]) EXCEPT !.route[r].router = FALSE],
                       [ids EXCEPT ![r] = -1], r + 1)

\* ----------------------------------------------------------------- actions
TemplateHead ==
    [title |-> [present |-> TRUE, text |-> "Template"],
     tags |-> [k \in TagKeys |->
                  IF k = <<"name", "description">>
                  THEN [present |-> TRUE, hasContent |-> TRUE, content |-> "template",
                        router |-> FALSE]
                  ELSE NoTag]]

NewRoute ==
    [params |-> NoParams, content |-> "", script |-> "",
     listeners |-> [e \in RouteEvents |-> <<>>], currentListenerId |-> 0,
     paramsListenerId |-> -1, router |-> FALSE]

Init ==
    /\ cfg \in Configs
    /\ defaultMeta = RouterOf(cfg).defaultMeta
    /\ routeMeta = [r \in RouteIds |-> Routes[r].meta]
    /\ location \in Urls
    /\ route = [r \in RouteIds |-> NewRoute]
    /\ currentRoute = NoRoute
    /\ isInitialized = FALSE
    /\ eventListeners = [e \in RouterEvents |-> <<>>]
    /\ eventListenerIds = [r \in RouteIds |-> -1]
    /\ routerListenerId = 0
    /\ popstate = 0
    /\ click = 0
    /\ wrapper = ""
    /\ head = TemplateHead
    /\ link = <<>>
    /\ hl = <<>>
    /\ pf = <<>>
    /\ mounting = [r \in RouteIds |-> 0]
    /\ teardown = [r \in RouteIds |-> 0]
    /\ microQ = <<>>
    /\ emits = [e \in RouterEvents |-> 0]
    /\ fetches = [r \in RouteIds |-> 0]
    /\ calls = [r \in RouteIds |-> [mounted |-> 0, unmount |-> 0, unmounted |-> 0]]
    /\ faults = 0
    /\ rejected = {}
    /\ inits = 0
    /\ unmounts = 0
    /\ seen = <<>>
    /\ returned = NoCall
    /\ resolved = NoFind
    /\ built = NotBuilt
    /\ busCall = NoBusCall
    /\ invoked = <<>>
    /\ ran = [r \in RouteIds |-> [mounted |-> 0, unmount |-> 0]]
    /\ shown = NoShown

\* init() emitting `initialized` before it sets isInitialized
initEmit_BeforeFlag(i) ==
    [RouterEmit(i.S, "initialized") EXCEPT !.isInitialized = TRUE]

\* init(): this.isInitialized = true; this.emit("initialized"), after the
\* loop over the routes gave i
initEmit(i) == RouterEmit([i.S EXCEPT !.isInitialized = TRUE], "initialized")

\* Router.init()
init ==
    /\ inits < MaxInit
    /\ Len(hl) < MaxHandle
    /\ LET i == initRoutes(Store, eventListenerIds, 1)
       IN /\ Commit(handleLocation(initEmit(i), location))
          /\ eventListenerIds' = i.ids
    /\ popstate' = popstate + 1
    /\ click' = click + 1
    /\ inits' = inits + 1
    /\ UNCHANGED << Fixed, Direct, location, faults, rejected, unmounts >>

\* Router.unmount(): removeEventListener gets a new bound function each
\* time, which is no registered listener
unmount ==
    /\ unmounts < MaxUnmount
    /\ LET u == unmountRoutes(Store, eventListenerIds, 1)
       IN /\ Commit(RouterEmit([u.S EXCEPT !.isInitialized = FALSE], "unmounted"))
          /\ eventListenerIds' = u.ids
    /\ unmounts' = unmounts + 1
    /\ UNCHANGED << Fixed, Direct, location, popstate, click, faults, rejected, inits >>

\* Router.navigate(path)
navigate(path) ==
    /\ Len(hl) < MaxHandle
    /\ location' = path
    /\ Commit(handleLocation(Store, path))
    /\ UNCHANGED << Fixed, Direct, eventListenerIds, popstate, click, faults, rejected, inits,
                    unmounts >>

\* a click on an <a href=path>: every registered click listener runs
\* onDocumentClick -> route(event): pushState, handleLocation
onDocumentClick(path) ==
    /\ microQ = <<>>
    /\ click >= 1
    /\ Len(hl) + click <= MaxHandle
    /\ location' = path
    /\ Commit(handleLocationTimes(Store, path, click))
    /\ UNCHANGED << Fixed, Direct, eventListenerIds, popstate, click, faults, rejected, inits,
                    unmounts >>

\* back/forward: the host shows another entry and every popstate listener runs
onPopState(path) ==
    /\ microQ = <<>>
    /\ popstate >= 1
    /\ Len(hl) + popstate <= MaxHandle
    /\ location' = path
    /\ Commit(handleLocationTimes(Store, path, popstate))
    /\ UNCHANGED << Fixed, Direct, eventListenerIds, popstate, click, faults, rejected, inits,
                    unmounts >>

Others == << Fixed, Direct, location, eventListenerIds, popstate, click, inits, unmounts >>

\* the next microtask: the continuation of an await that waited for no I/O
RunMicrotask ==
    /\ microQ # <<>>
    /\ LET m == Head(microQ)
           S == [Store EXCEPT !.microQ = Tail(microQ)]
       IN Commit(IF m.kind = "pf" THEN RoutePrefetchRest(S, m.id)
                 ELSE IF S.hl[m.id].pc = "unmountTick" THEN handleLocationFetch(S, m.id)
                 ELSE handleLocationRender(Logged(S, m.id, "fetch resolved"), m.id,
                                           S.hl[m.id].html))
    /\ UNCHANGED << Others, faults, rejected >>

\* the import awaited by Route.unmount() resolves: the unmount export is
\* called, unmount() resolves, handleLocation goes on
UnmountImportDone(i) ==
    /\ microQ = <<>>
    /\ hl[i].pc = "unmountImport"
    /\ LET old == hl[i].old
       IN Commit(handleLocationFetch(
                     runIfExist(Store, old, ViewInfo(Routes[old].view).unmountExport), i))
    /\ UNCHANGED << Others, faults, rejected >>

Answers == {"ok", "empty", "fail"}
EmptyMarkup == [template |-> FALSE, script |-> "", inner |-> "", text |-> ""]
AnswerOf(answer, r) == IF answer = "ok" THEN Markup(Routes[r].view) ELSE EmptyMarkup

\* the loader answers the markup request of handleLocation i
FetchDone(i, answer) ==
    /\ microQ = <<>>
    /\ hl[i].pc = "fetchIO"
    /\ answer # "ok" => faults < MaxFaults
    /\ faults' = IF answer = "ok" THEN faults ELSE faults + 1
    /\ rejected' = IF answer = "fail" THEN rejected \cup {i} ELSE rejected
    /\ IF answer = "fail"
       THEN Commit(handleLocationFailed(Store, i))
       ELSE LET a == fetchRouteAnswer(Store, hl[i].route, AnswerOf(answer, hl[i].route))
            IN Commit(handleLocationRender(
                          Logged([a.S EXCEPT !.hl[i].html = a.html], i, "fetch resolved"),
                          i, a.html))
    /\ UNCHANGED Others

\* the loader answers the markup request of prefetch j
PrefetchFetchDone(j, answer) ==
    /\ microQ = <<>>
    /\ pf[j].pc = "io"
    /\ answer # "ok" => faults < MaxFaults
    /\ faults' = IF answer = "ok" THEN faults ELSE faults + 1
    /\ IF answer = "fail"
       THEN Commit([Store EXCEPT !.pf[j].pc = "failed"])
       ELSE Commit(RoutePrefetchRest(
                       fetchRouteAnswer(Store, pf[j].route, AnswerOf(answer, pf[j].route)).S, j))
    /\ UNCHANGED << Others, rejected >>

\* the import started by Route.mounted() resolves: the mounted export runs
MountedImportDone(r) ==
    /\ microQ = <<>>
    /\ mounting[r] > 0
    /\ Commit(IF ViewInfo(Routes[r].view).mountedExport
              THEN PageMounted([Store EXCEPT !.mounting[r] = @ - 1], r)
              ELSE [Store EXCEPT !.mounting[r] = @ - 1])
    /\ UNCHANGED << Others, faults, rejected >>

\* an asynchronous unmount export of a page finishes
TeardownDone(r) ==
    /\ microQ = <<>>
    /\ teardown[r] > 0
    /\ teardown' = [teardown EXCEPT ![r] = @ - 1]
    /\ UNCHANGED << Fixed, Direct, location, route, currentRoute, isInitialized, eventListeners,
                    eventListenerIds, routerListenerId, popstate, click, wrapper, head, link,
                    hl, pf, mounting, microQ, emits, fetches, calls, faults, rejected,
                    inits, unmounts, seen, invoked, ran, shown >>

Next ==
    \/ init
    \/ unmount
    \/ \E path \in Urls : navigate(path)
    \/ \E path \in Urls : onDocumentClick(path)
    \/ \E path \in Urls : onPopState(path)
    \/ RunMicrotask
    \/ \E i \in 1..Len(hl) : UnmountImportDone(i)
    \/ \E i \in 1..Len(hl) : \E answer \in Answers : FetchDone(i, answer)
    \/ \E j \in 1..Len(pf) : \E answer \in Answers : PrefetchFetchDone(j, answer)
    \/ \E r \in RouteIds : MountedImportDone(r)
    \/ \E r \in RouteIds : TeardownDone(r)

Spec == Init /\ [][Next]_vars

\* ------------------------------------------------------ new Router(options)
\* The constructor is called with every options object made of: no routes or
\* a list of at most MaxRoutes routes, each one of appRouter's three; a
\* wrapper or none; a defaultMeta or none.
MaxRoutes == 3
RouteLists == UNION {[1..n -> {appRouter.routes[k] : k \in 1..3}] : n \in 0..MaxRoutes}
RouterOptions ==
    [routes : {[has |-> FALSE, list |-> <<>>]} \cup {[has |-> TRUE, list |-> l] : l \in RouteLists},
     wrapper : BOOLEAN,
     defaultMeta : {[has |-> FALSE, val |-> NoMeta], [has |-> TRUE, val |-> siteRouter.defaultMeta]}]

RouterInitError(message) == [outcome |-> "RouterInitError", message |-> message, router |-> NoRouter]

\* the constructor, from `this.routes = options.routes` on: f is what
\* find404Route(this.routes) gave
RouterNewFound(options, f) ==
    IF f.threw THEN RouterInitError("No 404 route provided")
    ELSE [outcome |-> "Router", message |-> "",
          router |-> [routes |-> options.routes.list, notFoundRoute |-> f.index,
                      defaultMeta |-> IF options.defaultMeta.has THEN options.defaultMeta.val
                                      ELSE NoMeta]]

\* the constructor without `if (!options?.wrapper) throw ...`
RouterNew_NoWrapperTest(options) ==
    IF ~options.routes.has THEN RouterInitError("No router provided in options")
    ELSE RouterNewFound(options, find404RouteIn(options.routes.list))

\* new Router(options)
RouterNew(options) ==
    IF ~options.routes.has THEN RouterInitError("No router provided in options")
    ELSE IF ~options.wrapper THEN RouterInitError("No wrapper provided in options")
    ELSE RouterNewFound(options, find404RouteIn(options.routes.list))

\* a call `new Router(options)`: the constructor touches nothing but the
\* object it builds
newRouter(options) ==
    /\ built' = [options |-> options, result |-> RouterNew(options)]
    /\ UNCHANGED << Fixed, returned, resolved, busCall, location, route, currentRoute,
                    isInitialized, eventListeners, eventListenerIds, routerListenerId,
                    popstate, click, wrapper, head, link, hl, pf, mounting, teardown, microQ,
                    emits, fetches, calls, faults, rejected, inits, unmounts, seen, invoked,
                    ran, shown >>

NextNew == \E options \in RouterOptions : newRouter(options)

\* the page of appRouter, before any call
InitNew == Init /\ cfg = "app" /\ location = UrlRoot

SpecNew == InitNew /\ [][NextNew]_vars

\* ------------------------------------------------- the buses, called directly
\* on, off and emit are public methods of Route and of Router: SpecBus calls
\* them on the Router and on its first route, with callbacks that return and
\* callbacks that throw, and calls off with every id up to MaxSubs.
MaxSubs == 2        \* on() calls in one behaviour, both buses together
MaxEmits == 1       \* Router.emit() calls in one behaviour
BusRoute == 1
RouterBusEvents == {"routeChanged", "paramsChanged"}
RouteBusEvents == {"paramsChanged", "scriptLoaded"}

BusFrame == << Fixed, returned, resolved, built, location, eventListenerIds, popstate, click,
               faults, rejected, inits, unmounts >>

\* router.on(event, cb)
RouterOnCall(event, cb) ==
    /\ routerListenerId + route[BusRoute].currentListenerId < MaxSubs
    /\ Commit(RouterOn(Store, event, cb))
    /\ busCall' = [op |-> "on", bus |-> "Router", event |-> event, id |-> routerListenerId,
                   result |-> TRUE]
    /\ UNCHANGED BusFrame

\* router.off(event, id)
RouterOffCall(event, id) ==
    /\ Commit(RouterOff(Store, event, id).S)
    /\ busCall' = [op |-> "off", bus |-> "Router", event |-> event, id |-> id,
                   result |-> RouterOff(Store, event, id).result]
    /\ UNCHANGED BusFrame

\* router.emit(event)
RouterEmitCall(event) ==
    /\ emits["routeChanged"] + emits["paramsChanged"] < MaxEmits
    /\ Commit(RouterEmit([Store EXCEPT !.invoked = <<>>], event))
    /\ busCall' = [op |-> "emit", bus |-> "Router", event |-> event, id |-> -1,
                   result |-> TRUE]
    /\ UNCHANGED BusFrame

\* route.on(event, cb)
RouteOnCall(event, cb) ==
    /\ routerListenerId + route[BusRoute].currentListenerId < MaxSubs
    /\ Commit(RouteOn(Store, BusRoute, event, cb))
    /\ busCall' = [op |-> "on", bus |-> "Route", event |-> event,
                   id |-> route[BusRoute].currentListenerId, result |-> TRUE]
    /\ UNCHANGED BusFrame

\* route.off(event, id)
RouteOffCall(event, id) ==
    /\ Commit(RouteOff(Store, BusRoute, event, id))
    /\ busCall' = [op |-> "off", bus |-> "Route", event |-> event, id |-> id,
                   result |-> Deleted(route[BusRoute].listeners[event], id)]
    /\ UNCHANGED BusFrame

\* route.emit(event)
RouteEmitCall(event) ==
    /\ Commit(RouteEmit([Store EXCEPT !.invoked = <<>>], BusRoute, event))
    /\ busCall' = [op |-> "emit", bus |-> "Route", event |-> event, id |-> -1,
                   result |-> TRUE]
    /\ UNCHANGED BusFrame

NextBus ==
    \/ \E event \in RouterBusEvents : \E cb \in Callbacks : RouterOnCall(event, cb)
    \/ \E event \in RouterBusEvents : \E id \in 0..MaxSubs : RouterOffCall(event, id)
    \/ \E event \in RouterBusEvents : RouterEmitCall(event)
    \/ \E event \in RouteBusEvents : \E cb \in Callbacks : RouteOnCall(event, cb)
    \/ \E event \in RouteBusEvents : \E id \in 0..MaxSubs : RouteOffCall(event, id)
    \/ \E event \in RouteBusEvents : RouteEmitCall(event)

SpecBus == InitNew /\ [][NextBus]_vars

\* ------------------------------------------------ the navigation scenario
\* appRouter and navigations to '/', '/42' and '/a/b' in every order, each
\* made when the one before it has finished; the view loader answers every
\* request with the view's markup.
MaxVisits == 3
VisitUrls == {UrlRoot, Url42, UrlAB}

InitVisit == Init /\ cfg = "app" /\ location = UrlRoot

\* router.navigate(path), called when no handleLocation is in progress
visit(path) ==
    /\ microQ = <<>>
    /\ \A i \in 1..Len(hl) : hl[i].pc \in {"done", "same", "failed"}
    /\ Len(hl) < MaxVisits
    /\ location' = path
    /\ Commit(handleLocation(Store, path))
    /\ UNCHANGED << Fixed, Direct, eventListenerIds, popstate, click, faults, rejected, inits,
                    unmounts >>

NextVisit ==
    \/ \E path \in VisitUrls : visit(path)
    \/ RunMicrotask
    \/ \E i \in 1..Len(hl) : UnmountImportDone(i)
    \/ \E i \in 1..Len(hl) : FetchDone(i, "ok")
    \/ \E j \in 1..Len(pf) : PrefetchFetchDone(j, "ok")
    \/ \E r \in RouteIds : MountedImportDone(r)

SpecVisit == InitVisit /\ [][NextVisit]_vars

\* --------------------------------------------- Route.match as a function
\* Route.match is a public method: SpecMatch calls it on the routes of four
\* route lists with every array of at most MaxSegments segments.
MaxSegments == 2
Segments == {<<"a">>, <<"b">>, <<"4", "2">>}
MatchConfigs == {"app", "site", "deep", "pair"}
MatchInputs == UNION {[1..n -> Segments] : n \in 0..MaxSegments}

InitMatch ==
    /\ cfg \in MatchConfigs
    /\ defaultMeta = RouterOf(cfg).defaultMeta
    /\ routeMeta = [r \in RouteIds |-> Routes[r].meta]
    /\ location = UrlRoot
    /\ route = [r \in RouteIds |-> NewRoute]
    /\ currentRoute = NoRoute
    /\ isInitialized = FALSE
    /\ eventListeners = [e \in RouterEvents |-> <<>>]
    /\ eventListenerIds = [r \in RouteIds |-> -1]
    /\ routerListenerId = 0
    /\ popstate = 0
    /\ click = 0
    /\ wrapper = ""
    /\ head = TemplateHead
    /\ link = <<>>
    /\ hl = <<>>
    /\ pf = <<>>
    /\ mounting = [r \in RouteIds |-> 0]
    /\ teardown = [r \in RouteIds |-> 0]
    /\ microQ = <<>>
    /\ emits = [e \in RouterEvents |-> 0]
    /\ fetches = [r \in RouteIds |-> 0]
    /\ calls = [r \in RouteIds |-> [mounted |-> 0, unmount |-> 0, unmounted |-> 0]]
    /\ faults = 0
    /\ rejected = {}
    /\ inits = 0
    /\ unmounts = 0
    /\ seen = <<>>
    /\ returned = NoCall
    /\ resolved = NoFind
    /\ built = NotBuilt
    /\ busCall = NoBusCall
    /\ invoked = <<>>
    /\ ran = [r \in RouteIds |-> [mounted |-> 0, unmount |-> 0]]
    /\ shown = NoShown

\* route.match(path, changeParams) returned m
matchReturned(m, r, path, changeParams) ==
    /\ Commit(m.S)
    /\ returned' = [route |-> r, path |-> path, changeParams |-> changeParams,
                    result |-> m.result]

\* a direct call route.match(path, changeParams)
match(r, path, changeParams) ==
    /\ matchReturned(Match(Store, r, path, changeParams), r, path, changeParams)
    /\ UNCHANGED << Fixed, resolved, built, busCall, location, eventListenerIds, popstate,
                    click, faults, rejected, inits, unmounts >>

NextMatch ==
    \E r \in RouteIds : \E path \in MatchInputs : \E changeParams \in BOOLEAN :
        match(r, path, changeParams)

SpecMatch == InitMatch /\ [][NextMatch]_vars

\* ------------------------------------------ Router.findRoute as a function
\* Router.findRoute is a public method: SpecFind calls it on the four route
\* lists with the paths of at most MaxSegments segments, with and without a
\* trailing slash.
RECURSIVE JoinPath(_, _)
JoinPath(segs, k) == IF k > Len(segs) THEN <<>> ELSE <<"/">> \o segs[k] \o JoinPath(segs, k + 1)

FindPaths == {JoinPath(a, 1) \o t : a \in MatchInputs, t \in {<<>>, <<"/">>}}

\* router.findRoute(path, routeChange) returned f.found
findRouteReturned(f, path, routeChange) ==
    /\ Commit(f.S)
    /\ resolved' = [path |-> path, routeChange |-> routeChange, found |-> f.found]

\* a direct call router.findRoute(path, routeChange)
findRouteCall(path, routeChange) ==
    /\ findRouteReturned(findRoute(Store, path, routeChange), path, routeChange)
    /\ UNCHANGED << Fixed, returned, built, busCall, location, eventListenerIds, popstate,
                    click, faults, rejected, inits, unmounts >>

NextFind == \E path \in FindPaths : \E routeChange \in BOOLEAN : findRouteCall(path, routeChange)

SpecFind == InitMatch /\ [][NextFind]_vars

\* ------------------------------------------- metadata as a function of its inputs
\* refreshMeta() is a public method: its result depends on defaultMeta, on the
\* current route's meta and on the document head it finds.  SpecMeta draws
\* these from the sets below and calls refreshMeta() again and again.
TopFields == {"title", "description"}
FamilyFields == {"description", "url"}

\* a RouteMeta object with the given fields; the value names the object and
\* the family it comes from
MetaWith(who, t, o, w) ==
    [top |-> [k \in t |-> who],
     og |-> [k \in o |-> IF who = "route" THEN "route og" ELSE "default og"],
     twitter |-> [k \in w |-> IF who = "route" THEN "route twitter" ELSE "default twitter"]]

RouteMetas ==
    {MetaWith("route", t, o, w) :
        t \in SUBSET TopFields, o \in SUBSET FamilyFields, w \in SUBSET FamilyFields}

DefaultMetas ==
    {MetaWith("default", t, o, w) :
        t \in {{}, TopFields}, o \in {{}, FamilyFields}, w \in {{}, FamilyFields}}

\* document heads of a template: with or without a title element, with or
\* without a description tag written by the author
Heads ==
    {[title |-> t,
      tags |-> [k \in TagKeys |-> IF k = <<"name", "description">> THEN d ELSE NoTag]] :
        t \in {[present |-> FALSE, text |-> ""], [present |-> TRUE, text |-> "Template"]},
        d \in {NoTag,
               [present |-> TRUE, hasContent |-> TRUE, content |-> "template", router |-> FALSE],
               [present |-> TRUE, hasContent |-> TRUE, content |-> "route", router |-> FALSE]}}

InitMeta ==
    /\ cfg = "app"
    /\ defaultMeta \in DefaultMetas
    /\ \E m \in RouteMetas : routeMeta = [r \in RouteIds |-> IF r = 1 THEN m ELSE NoMeta]
    /\ location = UrlRoot
    /\ route = [r \in RouteIds |-> NewRoute]
    /\ currentRoute \in {NoRoute, 1}
    /\ isInitialized = FALSE
    /\ eventListeners = [e \in RouterEvents |-> <<>>]
    /\ eventListenerIds = [r \in RouteIds |-> -1]
    /\ routerListenerId = 0
    /\ popstate = 0
    /\ click = 0
    /\ wrapper = ""
    /\ head \in Heads
    /\ link = <<>>
    /\ hl = <<>>
    /\ pf = <<>>
    /\ mounting = [r \in RouteIds |-> 0]
    /\ teardown = [r \in RouteIds |-> 0]
    /\ microQ = <<>>
    /\ emits = [e \in RouterEvents |-> 0]
    /\ fetches = [r \in RouteIds |-> 0]
    /\ calls = [r \in RouteIds |-> [mounted |-> 0, unmount |-> 0, unmounted |-> 0]]
    /\ faults = 0
    /\ rejected = {}
    /\ inits = 0
    /\ unmounts = 0
    /\ seen = <<>>
    /\ returned = NoCall
    /\ resolved = NoFind
    /\ built = NotBuilt
    /\ busCall = NoBusCall
    /\ invoked = <<>>
    /\ ran = [r \in RouteIds |-> [mounted |-> 0, unmount |-> 0]]
    /\ shown = NoShown

\* Router.refreshMeta(), called by a page
RefreshMeta ==
    /\ Commit(refreshMeta(Store))
    /\ UNCHANGED << Others, faults, rejected >>

NextMeta == RefreshMeta

SpecMeta == InitMeta /\ [][NextMeta]_vars

\* ------------------------------------------------------------------ claims
\* mounted() was called on r and unmount() not since: r holds its own
\* paramsChanged listener
IsMounted(r) ==
    \E k \in 1..Len(route[r].listeners.paramsChanged) :
        route[r].listeners.paramsChanged[k].cb = "Route.onParamsChanged"

\* no handleLocation is in progress
Settled == microQ = <<>> /\ \A i \in 1..Len(hl) : hl[i].pc \in {"done", "same", "failed"}

IsPrefix(s, t) == Len(s) <= Len(t) /\ \A k \in 1..Len(s) : s[k] = t[k]

\* C1: under any interleaving of navigations at most one route is mounted at
\* any time (a route is mounted only after the route mounted before it has
\* been unmounted).
C1_OneRouteMounted == Cardinality({r \in RouteIds : IsMounted(r)}) <= 1

\* C2: when the markup fetch of handleLocation i completes after a later
\* handleLocation made another route current, the result is not rendered:
\* wrapper and currentRoute stay, no routeChanged is emitted, the stale route
\* is not mounted.
C2_StaleNavigationNotRendered ==
    [][\A i \in 1..Len(hl) :
           ( /\ hl[i].pc = "fetchIO"
             /\ hl'[i].pc = "done"
             /\ \E j \in 1..Len(hl) : /\ j > i
                                      /\ hl[j].pc = "done"
                                      /\ hl[j].route = currentRoute
                                      /\ hl[j].route # hl[i].route )
           => /\ currentRoute' = currentRoute
              /\ wrapper' = wrapper
              /\ emits'.routeChanged = emits.routeChanged
              /\ calls'[hl[i].route].mounted = calls[hl[i].route].mounted]_vars

HandleLocationOrder ==
    << "unmount resolved", "fetch started", "fetch resolved", "container written",
       "prefetch started", "currentRoute set", "routeChanged emitted", "mounted called" >>

\* C3: the steps of one handleLocation invocation happen in the order: unmount
\* of the previous route resolves, fetchRoute starts, fetchRoute resolves, the
\* wrapper is written, prefetch starts, currentRoute is set, routeChanged is
\* emitted, mounted() is called.
C3_StepOrder == \A i \in 1..Len(hl) : IsPrefix(hl[i].log, HandleLocationOrder)

C3_Witness ==
    \E i \in 1..Len(hl) :
        hl[i].pc = "done" /\ hl[i].old # NoRoute /\ hl[i].log = HandleLocationOrder

\* C4: handleLocation starts fetching the next route's markup only when no
\* unmount export of the outgoing page is still running (Route.unmount()
\* resolves after the export has completed, also an asynchronous one).
C4_FetchAfterTeardown ==
    [][\A i \in 1..Len(hl) :
           ( /\ hl[i].old # NoRoute
             /\ hl[i].pc \in {"unmountImport", "unmountTick"}
             /\ hl'[i].pc \in {"fetchIO", "fetchTick"} )
           => teardown'[hl[i].old] = 0]_vars

C6_AtMostOneFetch == \A r \in RouteIds : fetches[r] <= 1

\* C6 (amended): once a route's content is cached, no step sends a markup
\* request for that route.
C6_CachedContentNotRefetched ==
    [][\A r \in RouteIds : route[r].content # "" => fetches'[r] = fetches[r]]_vars

C6_Witness ==
    \E i \in 1..Len(hl) :
        hl[i].pc = "fetchTick" /\ route[hl[i].route].content # "" /\ fetches[hl[i].route] = 1

MatchKeepsParams(m, r) == ~m.result => m.S.route[r].params = route[r].params

\* C7: a call of match that returns false leaves the route's params as they
\* were, for every route, input and value of changeParams.
C7_FailedMatchKeepsParams ==
    \A r \in RouteIds : \A path \in Urls : \A changeParams \in BOOLEAN :
        MatchKeepsParams(Match(Store, r, SplitPath(path), changeParams), r)

FindCommitsOnlyFound(f) ==
    /\ \A r \in RouteIds : r # f.found => f.S.route[r].params = route[r].params
    /\ f.S.emits.paramsChanged <= emits.paramsChanged + 1

FindCommitsNothing(f) ==
    /\ \A r \in RouteIds : f.S.route[r].params = route[r].params
    /\ f.S.emits.paramsChanged = emits.paramsChanged

\* C8: on an initialized Router findRoute(path, true) changes the params of no
\* route but the returned one and makes the Router emit paramsChanged at most
\* once; findRoute(path, false) changes no params and emits nothing.
C8_OnlyResolvedRouteCommitted ==
    isInitialized => \A path \in Urls :
        /\ FindCommitsOnlyFound(findRoute(Store, path, TRUE))
        /\ FindCommitsNothing(findRoute(Store, path, FALSE))

HeadShows(meta) ==
    /\ "title" \in DOMAIN meta.top
           => head.title.present /\ head.title.text = meta.top.title
    /\ "description" \in DOMAIN meta.top
           => /\ head.tags[<<"name", "description">>].present
              /\ head.tags[<<"name", "description">>].content = meta.top.description

\* C9: when the navigations have completed and a route of an initialized
\* Router is current, the title and the description of the document head are
\* those of the Router's computed meta.
C9_HeadSyncedAfterNavigation ==
    (Settled /\ currentRoute # NoRoute /\ route[currentRoute].router
        /\ hl[Len(hl)].pc = "done")
        => HeadShows(RouterMeta(Store))

\* C10: after Router.unmount() no subscription of init() remains: no popstate
\* and no click listener, no forwarding listener on any route, no owning
\* router, and unmounted has been emitted.
C10_UnmountReversesInit ==
    ~isInitialized =>
        /\ popstate = 0
        /\ click = 0
        /\ emits.unmounted = unmounts
        /\ \A r \in RouteIds :
               /\ ~route[r].router
               /\ \A k \in 1..Len(route[r].listeners.paramsChanged) :
                      route[r].listeners.paramsChanged[k].cb # "Router.onParamsChanged"

\* C11: as long as init() has never been called no route is current, whatever
\* navigate calls, link clicks and location-change notifications happened.
C11_NoCurrentRouteBeforeInit == inits = 0 => currentRoute = NoRoute

\* C12: while the Router is initialized, a paramsChanged emitted by any of its
\* routes makes the Router emit its own paramsChanged exactly once, whatever
\* init() and unmount() calls came before.
C12_ForwardedExactlyOnce ==
    isInitialized =>
        \A r \in RouteIds :
            RouteEmit(Store, r, "paramsChanged").emits.paramsChanged = emits.paramsChanged + 1

\* C13: every init() emits `initialized` exactly once, and nothing else does;
\* the listeners of that emission find isInitialized true and every route's
\* router set; the initial location resolution has done none of its steps,
\* and no routeChanged was emitted, when the block of init() ends.
C13_InitializedBeforeResolution ==
    [][/\ emits'.initialized # emits.initialized => inits' = inits + 1
       /\ inits' = inits + 1
              => /\ emits'.initialized = emits.initialized + 1
                 /\ seen' = Append(seen, [isInitialized |-> TRUE, routers |-> RouteIds])
                 /\ isInitialized'
                 /\ Len(hl') = Len(hl) + 1
                 /\ hl'[Len(hl')].log = <<>>
                 /\ emits'.routeChanged = emits.routeChanged]_vars

\* init() ran twice and an initial resolution has completed and emitted
\* routeChanged
C13_Witness ==
    /\ inits = 2
    /\ Len(seen) = 2
    /\ emits.routeChanged >= 1
    /\ \E i \in 1..Len(hl) : hl[i].pc = "done"

\* C14: when the loader fails on the markup request of a handleLocation
\* invocation, that invocation ends there: the wrapper and currentRoute stay
\* as they were, no Router event is emitted, mounted() is not called, no
\* prefetch starts and nothing is cached for any route.
C14_LoaderFailureNotRecovered ==
    [][\A i \in 1..Len(hl) :
           (i \in rejected' /\ i \notin rejected)
           => /\ hl'[i].pc = "failed"
              /\ hl'[i].log = hl[i].log
              /\ UNCHANGED << wrapper, link, head, currentRoute, route, emits, calls,
                              mounting, pf, microQ, fetches >>]_vars

\* after a loader failure on a route's markup, a later handleLocation for the
\* same route has asked the loader again
C14_Witness ==
    /\ Len(hl) = 2
    /\ rejected = {1}
    /\ hl[2].route = hl[1].route
    /\ hl[2].pc = "fetchIO"
    /\ fetches[hl[1].route] = 2
    /\ route[hl[1].route].content = ""

\* what prefetching must leave alone: currentRoute, every route's params, the
\* Router's emissions, the wrapper and the page, the mounted() and unmount()
\* calls and the page exports they run
PrefetchFrame(T) ==
    /\ T.currentRoute = currentRoute
    /\ \A r \in RouteIds : T.route[r].params = route[r].params
    /\ T.emits = emits
    /\ T.wrapper = wrapper /\ T.link = link /\ T.head = head
    /\ T.calls = calls /\ T.mounting = mounting /\ T.teardown = teardown

\* C15: in every state, the passive lookup of a link's route followed by
\* prefetch() of that route, and every continuation of a prefetch (its cached
\* content, or any answer of the loader), change neither currentRoute nor any
\* route's params, emit neither paramsChanged nor routeChanged, write nothing
\* to the wrapper and call no mounted or unmount export.
C15_PrefetchOnlyWarms ==
    /\ \A path \in Urls : PrefetchFrame(PrefetchFound(findRoute(Store, path, FALSE)))
    /\ \A j \in 1..Len(pf) :
           /\ pf[j].pc = "tick" => PrefetchFrame(RoutePrefetchRest(Store, j))
           /\ pf[j].pc = "io" =>
                  PrefetchFrame(RoutePrefetchRest(
                      fetchRouteAnswer(Store, pf[j].route,
                                       Markup(Routes[pf[j].route].view)).S, j))

\* a prefetch has completed: the route's content and script are cached, the
\* route was never mounted and another route is current
C15_Witness ==
    \E j \in 1..Len(pf) :
        /\ pf[j].pc = "done"
        /\ route[pf[j].route].content # ""
        /\ route[pf[j].route].script # ""
        /\ calls[pf[j].route].mounted = 0
        /\ currentRoute # NoRoute
        /\ currentRoute # pf[j].route
        /\ ~route[pf[j].route].params.def

\* C16: refreshMeta() called a second time with unchanged metadata leaves the
\* document head as the first call left it, for every computed meta and every
\* head the first call found.
C16_RefreshMetaIdempotent ==
    refreshMeta(refreshMeta(Store)).head = refreshMeta(Store).head

\* C17: after refreshMeta() the head has no name=description tag when the
\* computed meta has no description, and otherwise has that tag with the
\* description as its content, marked as written by the router.
C17_DescriptionReconciled ==
    LET tag == refreshMeta(Store).head.tags[<<"name", "description">>]
        meta == RouterMeta(Store)
    IN IF "description" \in DOMAIN meta.top
       THEN tag.present /\ tag.hasContent /\ tag.content = meta.top.description /\ tag.router
       ELSE ~tag.present

\* the tag names of the vocabulary that getMetaAttributesFromTemplate reads:
\* og:<field> and twitter:<field>
OgTag(f) ==
    CASE f = "description" -> "og:description"
      [] f = "image" -> "og:image"
      [] f = "title" -> "og:title"
      [] f = "type" -> "og:type"
      [] f = "url" -> "og:url"

TwitterTag(f) ==
    CASE f = "card" -> "twitter:card"
      [] f = "description" -> "twitter:description"
      [] f = "image" -> "twitter:image"
      [] f = "title" -> "twitter:title"
      [] f = "url" -> "twitter:url"
      [] f = "domain" -> "twitter:domain"

Carries(h, key, name, content) ==
    h.tags[<<key, name>>].present /\ h.tags[<<key, name>>].content = content

\* C18: after refreshMeta() every field of the computed meta is in its own
\* tag: the description in name=description, the Open Graph field f in
\* property=og:f, the Twitter field f in twitter:f under the attribute the META
\* table gives it.
C18_FieldsInOwnTags ==
    LET h == refreshMeta(Store).head
        meta == RouterMeta(Store)
    IN /\ "description" \in DOMAIN meta.top
              => Carries(h, "name", "description", meta.top.description)
       /\ \A f \in DOMAIN meta.og : Carries(h, "property", OgTag(f), meta.og[f])
       /\ \A f \in DOMAIN meta.twitter :
              Carries(h, META.twitter[f], TwitterTag(f), meta.twitter[f])

\* field by field: the route's value when the route sets the field, else the
\* default's, and no other field
MergedFrom(m, d, r) ==
    /\ DOMAIN m = DOMAIN d \cup DOMAIN r
    /\ \A k \in DOMAIN m : m[k] = IF k \in DOMAIN r THEN r[k] ELSE d[k]

\* C19: the Router's meta is, at top level and separately in the og and the
\* twitter object, defaultMeta overridden field by field by the current
\* route's meta; without a current route it is defaultMeta.
C19_MetaIsMerge ==
    LET meta == RouterMeta(Store)
    IN /\ MergedFrom(meta.top, defaultMeta.top, CurrentMeta(Store).top)
       /\ MergedFrom(meta.og, defaultMeta.og, CurrentMeta(Store).og)
       /\ MergedFrom(meta.twitter, defaultMeta.twitter, CurrentMeta(Store).twitter)
       /\ currentRoute = NoRoute => meta = defaultMeta

\* refreshMeta() has run for a current route that overrides one og field of
\* defaultMeta, leaves another to it, and alone sets a twitter field
C19_Witness ==
    /\ currentRoute # NoRoute
    /\ head.title.present
    /\ head.title.text = "route"
    /\ "title" \in DOMAIN defaultMeta.top
    /\ DOMAIN routeMeta[currentRoute].og = {"description"}
    /\ DOMAIN defaultMeta.og = {"description", "url"}
    /\ DOMAIN routeMeta[currentRoute].twitter = {"url"}
    /\ DOMAIN defaultMeta.twitter = {}
    /\ RouterMeta(Store).og = [description |-> "route og", url |-> "default og"]

\* the route's pattern is not NotFound, it has as many segments as the input,
\* and each of its literal segments is the input's segment at that place
StructurallyEqual(pattern, segments) ==
    /\ ~pattern.is404
    /\ Len(pattern.parts) = Len(segments)
    /\ \A k \in 1..Len(pattern.parts) :
           Head(pattern.parts[k]) = ":" \/ pattern.parts[k] = segments[k]

\* C20: match returns true exactly when the pattern is not NotFound, has the
\* input's number of segments and agrees with the input on every literal
\* segment; a successful match that commits binds every parameter name to the
\* input's segment at its place.
C20_MatchIffStructural ==
    returned.route # NoRoute =>
        /\ returned.result = StructurallyEqual(Routes[returned.route].path, returned.path)
        /\ (returned.result /\ returned.changeParams) =>
               \A k \in 1..Len(returned.path) :
                   LET part == Routes[returned.route].path.parts[k]
                   IN Head(part) = ":" =>
                          /\ Tail(part) \in DOMAIN route[returned.route].params.kv
                          /\ route[returned.route].params.kv[Tail(part)] = returned.path[k]

\* a pattern with a literal and a parameter has matched an input of two
\* segments and bound the parameter
C20_Witness ==
    /\ cfg = "deep"
    /\ returned.route = 1
    /\ returned.result
    /\ returned.changeParams
    /\ returned.path = << <<"a">>, <<"4", "2">> >>
    /\ route[1].params.kv = [n \in {IdName} |-> <<"4", "2">>]

\* ---------------------------------------------------------------- C21
\* the routes whose pattern a path matches structurally
Matching(path) == {r \in RouteIds : StructurallyEqual(Routes[r].path, SplitPath(path))}

\* C21: findRoute(path) returns the first route, in the order of the route
\* list, whose pattern matches the path structurally; it returns the Router's
\* NotFound route when no pattern matches, and only then.
C21_FirstMatchOrNotFound ==
    resolved.found # NoRoute =>
        IF Matching(resolved.path) = {}
        THEN Routes[resolved.found].path.is404 /\ resolved.found = find404Route
        ELSE /\ resolved.found \in Matching(resolved.path)
             /\ \A q \in Matching(resolved.path) : resolved.found <= q

\* findRoute('/a/b') on ['/:x/:y', '/a/b', NotFound] returned the first of
\* the two routes that match
C21_Witness ==
    /\ resolved.found = 1
    /\ Cardinality(Matching(resolved.path)) = 2
    /\ resolved.path = UrlAB

\* ---------------------------------------------------------------- C22
\* C22: with the routes '/', '/:id' and NotFound, whatever was visited
\* before, a finished navigation to /42 leaves the '/:id' route current with
\* params exactly {id: '42'}, one to / leaves the '/' route current with
\* params exactly {}, and one to /a/b leaves the NotFound route current.
C22_ScenarioResolves ==
    (Settled /\ hl # <<>>) =>
        /\ location = Url42 =>
               /\ currentRoute = 2
               /\ RouterParams(Store) = [n \in {IdName} |-> <<"4", "2">>]
        /\ location = UrlRoot => (currentRoute = 1 /\ RouterParams(Store) = EmptyFn)
        /\ location = UrlAB => (currentRoute = 3 /\ Routes[3].path.is404)

\* the third navigation, to /42 after / and /a/b, has finished
C22_Witness ==
    /\ Settled
    /\ Len(hl) = 3
    /\ hl[1].route = 1 /\ hl[2].route = 3 /\ hl[3].route = 2
    /\ location = Url42
    /\ RouterParams(Store) = [n \in {IdName} |-> <<"4", "2">>]

\* ---------------------------------------------------------------- C23
\* the NotFound routes of a route list
NotFoundCount(list) == Cardinality({k \in 1..Len(list) : list[k].path.is404})

\* C23: constructing a Router on a route list that does not hold exactly one
\* NotFound route (none, or two or more) fails with RouterInitError.
C23_ExactlyOneNotFound ==
    (built.result.outcome # "none" /\ built.options.routes.has
     /\ NotFoundCount(built.options.routes.list) # 1)
        => built.result.outcome = "RouterInitError"

\* ---------------------------------------------------------------- C24
\* C24: new Router(options) fails with RouterInitError when options has no
\* routes or an empty list, no wrapper, or a list without a NotFound route;
\* then there is no Router, no listener has been registered on the window,
\* the document or a route, and no route has an owning router.
C24_ConstructionFails ==
    (built.result.outcome # "none"
     /\ (\/ ~built.options.routes.has
         \/ built.options.routes.list = <<>>
         \/ ~built.options.wrapper
         \/ NotFoundCount(built.options.routes.list) = 0))
        => /\ built.result.outcome = "RouterInitError"
           /\ built.result.router = NoRouter
           /\ popstate = 0 /\ click = 0
           /\ \A r \in RouteIds :
                  /\ ~route[r].router
                  /\ \A e \in RouteEvents : route[r].listeners[e] = <<>>

\* new Router({routes: [], wrapper}) has thrown the error of find404Route
C24_Witness ==
    /\ built.options.routes.has
    /\ built.options.routes.list = <<>>
    /\ built.options.wrapper
    /\ built.result.outcome = "RouterInitError"
    /\ built.result.message = "No 404 route provided"

\* ---------------------------------------------------------------- C25
\* the subscriptions of an event on a bus, in the order of the Map
Subs(bus, event) ==
    IF bus = "Router" THEN eventListeners[event] ELSE route[BusRoute].listeners[event]

\* C25: an emit on either bus invokes every subscriber of the event exactly
\* once, in the order of subscription, whether or not subscribers throw, and
\* returns to its caller.
C25_ThrowingListenerIsolated ==
    busCall.op = "emit" =>
        /\ busCall.result
        /\ invoked = [k \in 1..Len(Subs(busCall.bus, busCall.event)) |->
                          [bus |-> busCall.bus, id |-> Subs(busCall.bus, busCall.event)[k].id]]

\* an emit on the Router bus has invoked a subscriber after one that threw
C25_Witness ==
    /\ busCall.op = "emit"
    /\ busCall.bus = "Router"
    /\ Len(invoked) = 2
    /\ eventListeners[busCall.event][1].cb = "thrower"
    /\ eventListeners[busCall.event][2].cb = "listener"

\* ---------------------------------------------------------------- C26
\* the bus whose Maps are lists holds an entry of this id
OnBus(lists, id) == \E e \in DOMAIN lists : \E k \in 1..Len(lists[e]) : lists[e][k].id = id

\* the Map, as a list of entries, has the key id
Holds(entries, id) == id \in {entries[k].id : k \in 1..Len(entries)}

\* C26: off(event, handle) with a handle that on(event, ...) returned and
\* that is still subscribed removes that entry and no other, on either bus;
\* a handle that has left a bus never comes back, and an emit invokes only
\* subscriptions that the bus holds.
C26_OffRemovesItsHandleOnly ==
    [][/\ (busCall'.op = "off" /\ busCall'.bus = "Router"
           /\ Holds(eventListeners[busCall'.event], busCall'.id)) =>
              /\ busCall'.result
              /\ \A e \in RouterEvents :
                     eventListeners'[e] =
                         IF e = busCall'.event
                         THEN SelectSeq(eventListeners[e], LAMBDA x : x.id # busCall'.id)
                         ELSE eventListeners[e]
              /\ route' = route
       /\ (busCall'.op = "off" /\ busCall'.bus = "Route"
           /\ Holds(route[BusRoute].listeners[busCall'.event], busCall'.id)) =>
              /\ busCall'.result
              /\ \A e \in RouteEvents :
                     route'[BusRoute].listeners[e] =
                         IF e = busCall'.event
                         THEN SelectSeq(route[BusRoute].listeners[e],
                                        LAMBDA x : x.id # busCall'.id)
                         ELSE route[BusRoute].listeners[e]
              /\ eventListeners' = eventListeners
       /\ \A id \in 0..MaxSubs :
              /\ (id < routerListenerId /\ ~OnBus(eventListeners, id))
                     => ~OnBus(eventListeners', id)
              /\ (id < route[BusRoute].currentListenerId
                  /\ ~OnBus(route[BusRoute].listeners, id))
                     => ~OnBus(route'[BusRoute].listeners, id)
       /\ busCall'.op = "emit" =>
              \A k \in 1..Len(invoked') :
                  IF invoked'[k].bus = "Router" THEN OnBus(eventListeners', invoked'[k].id)
                  ELSE OnBus(route'[BusRoute].listeners, invoked'[k].id)]_vars

\* two subscriptions of the same callback to one event of the Route bus, the
\* first removed with off: an emit of the event has invoked the second only
C26_Witness ==
    /\ busCall.op = "emit"
    /\ busCall.bus = "Route"
    /\ route[BusRoute].currentListenerId = 2
    /\ route[BusRoute].listeners[busCall.event] = << [id |-> 1, cb |-> "listener"] >>
    /\ invoked = << [bus |-> "Route", id |-> 1] >>

EmptyAnswered(i) ==
    /\ i \in 1..Len(hl)
    /\ hl[i].pc = "fetchIO"
    /\ hl'[i].pc = "done"
    /\ faults' = faults + 1

\* what handleLocation does with the fallback text
FallbackRendered(i) ==
    /\ wrapper' = ErrorText
    /\ currentRoute' = hl[i].route
    /\ emits'["routeChanged"] = emits["routeChanged"] + 1
    /\ calls'[hl[i].route].mounted = calls[hl[i].route].mounted + 1
    /\ route'[hl[i].route].content = route[hl[i].route].content
    /\ route'[hl[i].route].script = route[hl[i].route].script

\* C28: on an empty answer fetchRoute caches nothing and handleLocation
\* writes the fallback text into the wrapper, makes the route current, emits
\* routeChanged and calls mounted(), which starts no page script.
C28_EmptyAnswerNoScript ==
    [][\A i \in 1..MaxHandle :
           EmptyAnswered(i) =>
               /\ FallbackRendered(i)
               /\ mounting'[hl[i].route] = mounting[hl[i].route]]_vars

\* C28, amended: on an empty answer fetchRoute caches nothing and
\* handleLocation writes the fallback text into the wrapper, makes the route
\* current, emits routeChanged and calls mounted(); mounted() starts the page
\* script exactly when another, successful answer for the same route has
\* cached its script reference before.
C28_EmptyAnswerFallback ==
    [][\A i \in 1..MaxHandle :
           EmptyAnswered(i) =>
               /\ FallbackRendered(i)
               /\ mounting'[hl[i].route] =
                      mounting[hl[i].route] + IF route[hl[i].route].script # "" THEN 1 ELSE 0]_vars

\* a navigation has rendered the fallback text for a route with nothing
\* cached and mounted it without a page script
C28_Witness ==
    \E i \in 1..Len(hl) :
        /\ hl[i].pc = "done"
        /\ faults = 1
        /\ wrapper = ErrorText
        /\ currentRoute = hl[i].route
        /\ route[hl[i].route].content = ""
        /\ route[hl[i].route].script = ""
        /\ calls[hl[i].route].mounted = 1
        /\ mounting[hl[i].route] = 0
        /\ ran[hl[i].route].mounted = 0

\* ---------------------------------------------------------------- C29
\* the page script of the route has a mounted and an unmount export
BothExports(r) ==
    /\ ViewInfo(Routes[r].view).mountedExport
    /\ ViewInfo(Routes[r].view).unmountExport # "none"

\* C29: the mounted and unmount exports of a page script are invoked in
\* alternation, mounted first: at any time the unmount export has run as
\* often as the mounted export, or once less.
C29_ExportsAlternate ==
    \A r \in RouteIds :
        BothExports(r) =>
            /\ ran[r].unmount <= ran[r].mounted
            /\ ran[r].mounted <= ran[r].unmount + 1

\* ---------------------------------------------------------------- C30
\* the own paramsChanged listeners a route holds
OwnListeners(r) ==
    {k \in 1..Len(route[r].listeners.paramsChanged) :
         route[r].listeners.paramsChanged[k].cb = "Route.onParamsChanged"}

\* C30: whenever no handleLocation is in progress and currentRoute is set,
\* its mounted() was called after its last unmount(), it holds exactly one
\* own paramsChanged listener, and no other route holds one.
C30_CurrentRouteMounted ==
    (Settled /\ currentRoute # NoRoute) =>
        /\ calls[currentRoute].mounted > calls[currentRoute].unmount
        /\ Cardinality(OwnListeners(currentRoute)) = 1
        /\ \A r \in RouteIds \ {currentRoute} : OwnListeners(r) = {}

\* ---------------------------------------------------------------- C31
\* the listeners the 'app' page script has subscribed to the Router's
\* paramsChanged and that are still on the bus
PageListeners ==
    {k \in 1..Len(eventListeners["paramsChanged"]) :
         eventListeners["paramsChanged"][k].cb = "paramChanged"}

\* every mounted() of the route has been followed by an unmount() that has
\* resolved, and no import of a mounted() is pending
Unmounted(r) ==
    /\ calls[r].mounted >= 1
    /\ calls[r].unmounted = calls[r].mounted
    /\ mounting[r] = 0

\* C31: once the route of the 'app' page has been unmounted, the Router's
\* paramsChanged bus holds no listener that the page script registered.
C31_PageListenersRemoved ==
    \A r \in RouteIds :
        (Routes[r].view = "app" /\ Unmounted(r)) => PageListeners = {}

\* ---------------------------------------------------------------- C32
\* params.id of a route, as a listener would read it
ParamsId(params) ==
    IF params.def /\ IdName \in DOMAIN params.kv THEN params.kv[IdName] ELSE <<UndefinedText>>

\* a handleLocation starts in this step and the Router emits paramsChanged
\* while the 'app' page, which shows Router.params.id in #link, listens
EmitsWhileListening ==
    /\ Len(hl') > Len(hl)
    /\ emits'["paramsChanged"] > emits["paramsChanged"]
    /\ wrapper = "app"
    /\ PageListeners # {}

\* C32: when the Router emits paramsChanged during a navigation, the
\* listener reads from Router.params the parameters of the route resolved
\* for the new location: the 'app' page's listener writes the id of that
\* route's params into #link.
C32_ListenerReadsNewParams ==
    [][EmitsWhileListening => link' = ParamsId(route'[hl'[Len(hl')].route].params)]_vars

\* ---------------------------------------------------------------- C33
\* a finished handleLocation resolved this route and fetchRoute() returned
\* this markup to it
Rendered(r, html) ==
    \E i \in 1..Len(hl) : hl[i].pc = "done" /\ hl[i].route = r /\ hl[i].html = html

\* C33: whenever control is back in the event loop and currentRoute is set,
\* and whenever a routeChanged listener ran with currentRoute set, the
\* wrapper holds the markup that fetchRoute() returned to a handleLocation
\* for that route: the wrapper write, the currentRoute assignment and the
\* emission are one uninterrupted block.
C33_ContainerMatchesCurrentRoute ==
    /\ currentRoute # NoRoute => Rendered(currentRoute, wrapper)
    /\ (shown.set /\ shown.currentRoute # NoRoute) => Rendered(shown.currentRoute, shown.wrapper)

\* two overlapping navigations to different routes have both rendered, the
\* earlier one last: the wrapper and currentRoute are both its own
C33_Witness ==
    /\ Len(hl) = 2
    /\ hl[1].pc = "done" /\ hl[2].pc = "done"
    /\ hl[1].route # hl[2].route
    /\ currentRoute = hl[1].route
    /\ wrapper = hl[1].html
    /\ wrapper # hl[2].html
    /\ shown = [set |-> TRUE, wrapper |-> wrapper, currentRoute |-> currentRoute]
====
